---- MODULE Spec2Model ----
(***************************************************************************)
(* Layered trait resolution and the loadable-stratum lifecycle of          *)
(* WebMapServiceCatalogItem (terriajs).                                    *)
(*                                                                         *)
(* The specifications share the variables below:                           *)
(*   TraitSpec   primitive traits (getValue, fromJson, ...) applied to     *)
(*               every stack of static strata drawn from bounded sets;     *)
(*   CodecSpec   toJson/fromJson and isSameType of every declaration;      *)
(*   Spec        the metadata-load lifecycle of one catalog item;          *)
(*   DupSpec     duplication of the loadable strata into a second model;   *)
(*   ColorSpec   TableColorMap over bounded columns and colour traits;     *)
(*   ExportSpec  the ExportData view's handling of item.exportData();      *)
(*   TimesSpec   createDiscreteTimesFromIsoSegments, one loop turn a step; *)
(*   TileSpec    requestImage of the scale-limited imagery provider;       *)
(*   GroupSpec   the open state of the DataCatalogGroup view.              *)
(***************************************************************************)
EXTENDS Integers, Sequences, FiniteSets, TLC

VARIABLES
    strata,      \* model.strata: stratum name -> stratum object, or Absent
    trait,       \* the PrimitiveTrait under test (TraitSpec)
    result,      \* outcome of the last operation; in Spec, the last showDiffImage
    loader,      \* the metadata loader of the item: [state, input]
    promise,     \* the forceLoadMetadata promise in flight
    callers,     \* promises handed out by loadMetadata / loadMapItems
    fetchCount,  \* GetCapabilities fetches started so far
    loadCount,   \* forceLoadMetadata invocations so far
    copy,        \* the duplicate of the item: its strata (DupSpec)
    table,       \* the TableColorMap under test (ColorSpec)
    export,      \* the ExportData view and what it has done (ExportSpec)
    times,       \* one call of createDiscreteTimesFromIsoSegments (TimesSpec)
    provider,    \* the imagery provider and what it has done (TileSpec)
    group        \* the DataCatalogGroup view and its group (GroupSpec)

vars ==
    <<strata, trait, result, loader, promise, callers, fetchCount, loadCount,
      copy, table, export, times, provider, group>>

\* The variables of the specifications added to the first two.
auxVars == <<copy, table, export, times, provider, group>>

----------------------------------------------------------------------------
(* JavaScript values.  A value is a record tagged with its kind; typeof is *)
(* computed from the tag the way JavaScript computes it.                   *)

Undefined == [t |-> "undefined"]
Null == [t |-> "null"]
Str(s) == [t |-> "string", v |-> s]
Num(n) == [t |-> "number", v |-> n]
Bool(b) == [t |-> "boolean", v |-> b]
EmptyObject == [t |-> "object", styles |-> Undefined]

typeof(x) == IF x.t = "null" THEN "object" ELSE x.t

Absent == [kind |-> "absent"]

----------------------------------------------------------------------------
(* Bounds of the model.                                                    *)

MaxCallers == 3

----------------------------------------------------------------------------
(* Strata.                                                                 *)
(*   static            [kind, ref, values]       values: trait id -> value *)
(*   GetCapabilities   [kind, ref, catalogItem, capabilities]              *)
(*   Diff              [kind, ref, catalogItem]                            *)
(* ref is the identity of the stratum object: two records with the same    *)
(* ref are the same JavaScript object.                                     *)

userStratumName == "user"
definitionStratumName == "definition"
defaultsStratumName == "defaults"
getCapabilitiesStratumName == "getCapabilities"
diffStratumName == "diff"

StaticNames == {userStratumName, definitionStratumName, defaultsStratumName}
StratumNames == StaticNames \cup {getCapabilitiesStratumName, diffStratumName}

\* Priority of the strata, highest first.
StratumOrder ==
    <<userStratumName, definitionStratumName, diffStratumName,
      getCapabilitiesStratumName, defaultsStratumName>>

TraitIds ==
    {"url", "layers", "isShowingDiff", "firstDiffDate", "secondDiffDate",
     "diffStyleId", "parameters", "disableStyleSelector",
     "groupBy", "ungroupedTitle", "hideEmptyGroups"}

EmptyValues == [id \in TraitIds |-> Undefined]

StaticStratum(ref, values) == [kind |-> "static", ref |-> ref, values |-> values]

GetCapabilitiesStratum(ref, catalogItem, capabilities) ==
    [kind |-> "getCapabilities", ref |-> ref, catalogItem |-> catalogItem,
     capabilities |-> capabilities]

DiffStratum(ref, catalogItem) ==
    [kind |-> "diff", ref |-> ref, catalogItem |-> catalogItem]

\* The one catalog item of the lifecycle specification.
Item == "item"

RECURSIVE SelectPresent(_, _, _)
SelectPresent(s, order, i) ==
    IF i > Len(order) THEN <<>>
    ELSE IF s[order[i]] = Absent THEN SelectPresent(s, order, i + 1)
    ELSE <<s[order[i]]>> \o SelectPresent(s, order, i + 1)

\* model.strataTopToBottom: the installed strata, highest priority first.
strataTopToBottom(s) == SelectPresent(s, StratumOrder, 1)

----------------------------------------------------------------------------
(* URLs and capabilities documents.  UrlA is a plain service URL; UrlB     *)
(* carries a "layers" query parameter.  A capabilities document is         *)
(* identified by the URL it was fetched from.                              *)

UrlA == Str("http://a/wms")
UrlB == Str("http://b/wms?layers=LQ")
Urls == {UrlA, UrlB}

\* uri.query(true).layers
UriQueryLayers(url) == IF url = UrlB THEN Str("LQ") ELSE Undefined

Capabilities(url) == [source |-> url]

\* filterOutUndefined(capabilities.topLevelNamedLayers.map(Name)).join(",")
TopLevelNamedLayers(capabilities) ==
    IF capabilities.source = UrlA THEN Str("LA1,LA2") ELSE Str("LB1")

----------------------------------------------------------------------------
(* Primitive traits.                                                       *)

PrimitiveType == {"string", "number", "boolean"}

\* new PrimitiveTrait(id, options)
PrimitiveTrait(id, options) ==
    [kind |-> "primitive", id |-> id, type |-> options.type,
     isNullable |-> (options.isNullable = Bool(TRUE))]

RECURSIVE getValueFrom(_, _, _, _)
RECURSIVE stratumGet(_, _, _)

\* stratum[id]: a stored field of a static stratum, a computed getter of a
\* loadable stratum (which reads traits of its catalogItem, whose strata are s).
stratumGet(stratum, id, s) ==
    CASE stratum.kind = "static" -> stratum.values[id]
      [] stratum.kind = "getCapabilities" /\ id = "layers" ->
            LET url == getValueFrom(strataTopToBottom(s), "url", s, 1)
                layers == IF url # Undefined THEN UriQueryLayers(url) ELSE Undefined
            IN  IF layers = Undefined
                THEN TopLevelNamedLayers(stratum.capabilities)
                ELSE layers
      [] stratum.kind = "diff" /\ id = "disableStyleSelector" ->
            getValueFrom(strataTopToBottom(s), "isShowingDiff", s, 1)
      [] OTHER -> Undefined

\* The loop of PrimitiveTrait.getValue from position i of the stack.
getValueFrom(stack, id, s, i) ==
    IF i > Len(stack) THEN Undefined
    ELSE LET value == stratumGet(stack[i], id, s)
         IN  IF value # Undefined THEN value
             ELSE getValueFrom(stack, id, s, i + 1)

RECURSIVE getValueFromSkippingNull(_, _, _, _)
getValueFromSkippingNull(stack, id, s, i) ==
    IF i > Len(stack) THEN Undefined
    ELSE LET value == stratumGet(stack[i], id, s)
         IN  IF value # Undefined /\ value # Null THEN value
             ELSE getValueFromSkippingNull(stack, id, s, i + 1)

Reverse(seq) == [i \in 1..Len(seq) |-> seq[Len(seq) + 1 - i]]

\* Mutants of getValue: the stack walked from the bottom; null returned when
\* nothing is defined; null treated as "not set".
getValueBottomToTop(tr, s) ==
    getValueFrom(Reverse(strataTopToBottom(s)), tr.id, s, 1)

getValueNullWhenUnset(tr, s) ==
    LET value == getValueFrom(strataTopToBottom(s), tr.id, s, 1)
    IN  IF value = Undefined THEN Null ELSE value

getValueSkippingNull(tr, s) ==
    getValueFromSkippingNull(strataTopToBottom(s), tr.id, s, 1)

\* PrimitiveTrait.getValue(model), model.strata = s
getValue(tr, s) == getValueFrom(strataTopToBottom(s), tr.id, s, 1)

\* The default a Traits class declares for a property (its initialiser).
TraitDefault(id) ==
    CASE id = "groupBy" -> Str("none")
      [] id = "ungroupedTitle" -> Str("No group")
      [] id = "hideEmptyGroups" -> Bool(TRUE)
      [] OTHER -> Undefined

\* The model's accessor of a trait: the resolved value, or the declared default.
ResolveTrait(tr, s) ==
    LET value == getValue(tr, s)
    IN  IF value = Undefined THEN TraitDefault(tr.id) ELSE value

WarningSeverity == "Warning"

\* Mutant of fromJson: a nullable trait accepts a value of any type.
fromJsonNullableAcceptsAll(tr, jsonValue) ==
    IF typeof(jsonValue) # tr.type /\ ~tr.isNullable
    THEN [error |-> TRUE,
          title |-> "Invalid property",
          message |-> [property |-> tr.id, expected |-> tr.type,
                       actual |-> typeof(jsonValue)],
          severity |-> WarningSeverity]
    ELSE [error |-> FALSE, value |-> jsonValue]

\* Mutant of fromJson: the null test written loosely (jsonValue != null), so
\* that undefined passes it as null does.
fromJsonLooseNull(tr, jsonValue) ==
    IF typeof(jsonValue) # tr.type
       /\ (~tr.isNullable \/ jsonValue \notin {Null, Undefined})
    THEN [error |-> TRUE,
          title |-> "Invalid property",
          message |-> [property |-> tr.id, expected |-> tr.type,
                       actual |-> typeof(jsonValue)],
          severity |-> WarningSeverity]
    ELSE [error |-> FALSE, value |-> jsonValue]

\* PrimitiveTrait.fromJson(model, stratumName, jsonValue)
fromJson(tr, jsonValue) ==
    IF typeof(jsonValue) # tr.type /\ (~tr.isNullable \/ jsonValue # Null)
    THEN [error |-> TRUE,
          title |-> "Invalid property",
          message |-> [property |-> tr.id, expected |-> tr.type,
                       actual |-> typeof(jsonValue)],
          severity |-> WarningSeverity]
    ELSE [error |-> FALSE, value |-> jsonValue]

\* Mutant of toJson: numbers and booleans written out as text.
toJsonAsString(tr, value) ==
    IF value.t \in {"number", "boolean"} THEN Str(ToString(value.v)) ELSE value

\* PrimitiveTrait.toJson(value)
toJson(tr, value) == value

\* Mutant of isSameType: isNullable left out of the comparison.
isSameTypeIgnoringNullable(tr, other) ==
    /\ other.kind = "primitive"
    /\ other.type = tr.type

\* PrimitiveTrait.isSameType(trait); other.kind tells what class it is.
isSameType(tr, other) ==
    /\ other.kind = "primitive"
    /\ other.type = tr.type
    /\ other.isNullable = tr.isNullable

----------------------------------------------------------------------------
(* Initial values of the lifecycle variables.                              *)

Callers == 1..MaxCallers

Idle == [outcome |-> "idle"]
NoPromise == [status |-> "none"]
NoResult == [op |-> "none"]
NoTrait == [kind |-> "none"]

NoCopy == [state |-> "none"]
NoTable == [kind |-> "none"]
NoExport == [state |-> "none"]
NoTimes == [pc |-> "none"]
NoProvider == [state |-> "none"]
NoGroup == [state |-> "none"]

\* The variables of the last three specifications, unused.
LateIdle ==
    /\ times = NoTimes
    /\ provider = NoProvider
    /\ group = NoGroup

lateVars == <<times, provider, group>>

AuxIdle ==
    /\ copy = NoCopy
    /\ table = NoTable
    /\ export = NoExport
    /\ LateIdle

LifecycleIdle ==
    /\ loader = [state |-> "Absent", input |-> Undefined]
    /\ promise = NoPromise
    /\ callers = [c \in Callers |-> Idle]
    /\ fetchCount = 0
    /\ loadCount = 0

lifecycleVars == <<loader, promise, callers, fetchCount, loadCount>>

----------------------------------------------------------------------------
(* TraitSpec: one primitive trait, every stack of static strata.           *)

TestTraitIds == {"groupBy", "hideEmptyGroups", "layers"}

TestOptions ==
    [type : PrimitiveType, isNullable : {Undefined, Bool(FALSE), Bool(TRUE)}]

TestValues == {Undefined, Null, Str("A"), Str("B"), Bool(TRUE)}

JsonValues ==
    {Undefined, Null, Str("A"), Str(""), Num(0), Num(1), Bool(TRUE), Bool(FALSE),
     EmptyObject}

\* The stratum object installed under a static name holds one stored value
\* for the trait under test.
NoStratum == [t |-> "absent"]

TestStrata(id) ==
    {[n \in StratumNames |->
        IF n \in StaticNames /\ pick[n] # NoStratum
        THEN StaticStratum(1, [EmptyValues EXCEPT ![id] = pick[n]])
        ELSE Absent] :
        pick \in [StaticNames -> {NoStratum} \cup TestValues]}

TraitInit ==
    /\ trait \in {PrimitiveTrait(id, o) : id \in TestTraitIds, o \in TestOptions}
    /\ strata \in TestStrata(trait.id)
    /\ result = NoResult
    /\ LifecycleIdle
    /\ AuxIdle

\* model.strata.delete(name)
RemoveStratum(name) ==
    /\ strata[name] # Absent
    /\ strata' = [strata EXCEPT ![name] = Absent]
    /\ result' = NoResult
    /\ UNCHANGED <<auxVars, trait, lifecycleVars>>

\* Mutant of GetValue: the resolved value is written through to the user
\* stratum as a cache.
GetValueWritingThrough ==
    LET value == getValue(trait, strata)
    IN  /\ result' = [op |-> "getValue", value |-> value]
        /\ strata' =
              IF value = Undefined THEN strata
              ELSE [strata EXCEPT ![userStratumName] =
                      StaticStratum(1, [EmptyValues EXCEPT ![trait.id] = value])]
        /\ UNCHANGED <<auxVars, trait, lifecycleVars>>

\* trait.getValue(model)
GetValue ==
    /\ result' = [op |-> "getValue", value |-> getValue(trait, strata)]
    /\ UNCHANGED <<auxVars, strata, trait, lifecycleVars>>

\* model[trait.id]
ReadTrait ==
    /\ result' = [op |-> "read", value |-> ResolveTrait(trait, strata)]
    /\ UNCHANGED <<auxVars, strata, trait, lifecycleVars>>

\* trait.fromJson(model, stratumName, jsonValue)
FromJson(jsonValue) ==
    /\ result' = [op |-> "fromJson", json |-> jsonValue,
                  result |-> fromJson(trait, jsonValue)]
    /\ UNCHANGED <<auxVars, strata, trait, lifecycleVars>>

\* A fresh model of the same type holding one static "definition" stratum
\* with the outcome of fromJson; what the trait resolves to in it.
Restore(tr, parsed) ==
    getValue(tr,
        [n \in StratumNames |->
            IF n = definitionStratumName /\ ~parsed.error
            THEN StaticStratum(1, [EmptyValues EXCEPT ![tr.id] = parsed.value])
            ELSE Absent])

\* trait.fromJson(fresh, "definition", trait.toJson(value))
RoundTrip(value) ==
    LET json == toJson(trait, value)
        parsed == fromJson(trait, json)
    IN  /\ result' = [op |-> "roundTrip", value |-> value, json |-> json,
                      result |-> parsed, restored |-> Restore(trait, parsed)]
        /\ UNCHANGED <<auxVars, strata, trait, lifecycleVars>>

\* Trait declarations to compare the trait under test with: primitive traits
\* under its own id and another, and two traits of another class.
OtherTraits(tr) ==
    {PrimitiveTrait(id, o) :
        id \in {tr.id, "url"},
        o \in [type : PrimitiveType, isNullable : {Undefined, Bool(TRUE)}]}
    \cup {[kind |-> "anyTrait", id |-> tr.id, type |-> tr.type,
           isNullable |-> n] : n \in BOOLEAN}

\* trait.isSameType(other), and other.isSameType(trait) for a primitive other
IsSameType(other) ==
    /\ result' = [op |-> "isSameType", other |-> other,
                  value |-> isSameType(trait, other),
                  converse |-> IF other.kind = "primitive"
                               THEN isSameType(other, trait)
                               ELSE FALSE]
    /\ UNCHANGED <<auxVars, strata, trait, lifecycleVars>>

TraitNext ==
    \/ \E name \in StaticNames : RemoveStratum(name)
    \/ GetValue
    \/ ReadTrait
    \/ \E jsonValue \in JsonValues : FromJson(jsonValue)

TraitSpec == TraitInit /\ [][TraitNext]_vars

\* CodecSpec: every primitive trait declaration, serialising values and
\* compared with other declarations; the model has no stratum installed.
CodecInit ==
    /\ trait \in {PrimitiveTrait(id, o) : id \in TestTraitIds, o \in TestOptions}
    /\ strata = [n \in StratumNames |-> Absent]
    /\ result = NoResult
    /\ LifecycleIdle
    /\ AuxIdle

CodecNext ==
    \/ \E value \in JsonValues : RoundTrip(value)
    \/ \E other \in OtherTraits(trait) : IsSameType(other)

CodecSpec == CodecInit /\ [][CodecNext]_vars

----------------------------------------------------------------------------
(* The catalog item: resolved traits and derived values.                   *)

traitValue(s, id) == getValueFrom(strataTopToBottom(s), id, s, 1)

\* uri.clone().setSearch({service, version, request: "GetCapabilities"})
defaultGetCapabilitiesUrl(s) ==
    LET url == traitValue(s, "url")
    IN  IF url # Undefined
        THEN [t |-> "string", v |-> url.v, request |-> "GetCapabilities"]
        ELSE Undefined

\* No getCapabilitiesUrl trait is set on the item: the default is used.
getCapabilitiesUrl(s) == defaultGetCapabilitiesUrl(s)

\* WebMapServiceCapabilities.fromUrl(url): the document served at url.
CapabilitiesFromUrl(getCapsUrl) == Capabilities(Str(getCapsUrl.v))

\* layers.split(",")
layersArray(s) ==
    LET layers == traitValue(s, "layers")
    IN  CASE layers = Str("LA1,LA2") -> <<"LA1", "LA2">>
          [] layers = Str("LB1") -> <<"LB1">>
          [] layers = Str("LQ") -> <<"LQ">>
          [] OTHER -> <<>>

\* capabilities.getInheritedValues(capabilities.findLayer(name), "Style"),
\* the style names; no styles when the document has no such layer.
LayerStyles(capabilities, name) ==
    CASE capabilities.source = UrlA /\ name = "LA1" -> <<"s1", "ndvi">>
      [] capabilities.source = UrlB /\ name = "LB1" -> <<"s1">>
      [] OTHER -> <<>>

\* GetCapabilitiesStratum.availableStyles, resolved on the item: one entry
\* per layer of layersArray.
availableStyles(s) ==
    IF s[getCapabilitiesStratumName] = Absent THEN <<>>
    ELSE [i \in 1..Len(layersArray(s)) |->
            [layerName |-> layersArray(s)[i],
             styles |-> LayerStyles(s[getCapabilitiesStratumName].capabilities,
                                    layersArray(s)[i])]]

\* The availableDiffStyles trait of the item.
availableDiffStyles == {"ndvi"}

\* styleSelector is undefined without styles; otherwise it offers the styles
\* of the first layer.
styleSelectorDefined(s) ==
    /\ Len(availableStyles(s)) # 0
    /\ Len(availableStyles(s)[1].styles) # 0

styleSelectorAvailableStyles(s) ==
    {availableStyles(s)[1].styles[i] : i \in 1..Len(availableStyles(s)[1].styles)}

canDiffImages(s) ==
    /\ styleSelectorDefined(s)
    /\ \E diffStyle \in availableDiffStyles :
          diffStyle \in styleSelectorAvailableStyles(s)

\* getTagForTime(date): the tag of the discrete time at the date's index,
\* undefined when the date has no discrete time.
Dates == {"d1", "d2", "dX"}

getTagForTime(date) ==
    CASE date = "d1" -> Str("t1")
      [] date = "d2" -> Str("t2")
      [] OTHER -> Undefined

----------------------------------------------------------------------------
(* Object identity.  The ref of a stratum object tells it from the object  *)
(* it replaces under the same name: a new object gets the ref the          *)
(* installed one does not have.                                            *)

FreshRef(s, name) == IF s[name] = Absent THEN 1 ELSE 3 - s[name].ref

----------------------------------------------------------------------------
(* Writes to the strata map.                                               *)

\* model.setTrait(stratumId, id, value): the stratum under stratumId is
\* replaced by a new stratum object (ref) that differs in the one trait.
setTrait(s, stratumId, id, value, ref) ==
    LET old == IF s[stratumId] = Absent THEN EmptyValues ELSE s[stratumId].values
    IN  [s EXCEPT ![stratumId] = StaticStratum(ref, [old EXCEPT ![id] = value])]

\* Mutants of forceLoadMetadataInstall: the diff stratum is not set; an
\* installed GetCapabilities stratum is updated in place.
forceLoadMetadataInstallWithoutDiff(s, stratum, diffRef) ==
    [s EXCEPT ![getCapabilitiesStratumName] = stratum]

forceLoadMetadataInstallInPlace(s, stratum, diffRef) ==
    IF s[getCapabilitiesStratumName] = Absent
    THEN [s EXCEPT ![getCapabilitiesStratumName] = stratum,
                   ![diffStratumName] = DiffStratum(diffRef, Item)]
    ELSE [s EXCEPT ![getCapabilitiesStratumName].capabilities = stratum.capabilities,
                   ![diffStratumName] = DiffStratum(diffRef, Item)]

\* The then-callback of forceLoadMetadata: both strata are set in one
\* runInAction.
forceLoadMetadataInstall(s, stratum, diffRef) ==
    [s EXCEPT ![getCapabilitiesStratumName] = stratum,
              ![diffStratumName] = DiffStratum(diffRef, Item)]

\* Mutant of forceLoadMetadataOnRejected: the diff stratum is set whatever
\* the outcome of the load.
forceLoadMetadataOnRejectedSetsDiff(s, diffRef) ==
    [s EXCEPT ![diffStratumName] = DiffStratum(diffRef, Item)]

\* forceLoadMetadata has no rejection handler: a rejection of
\* GetCapabilitiesStratum.load passes through and nothing is installed.
forceLoadMetadataOnRejected(s, diffRef) == s

----------------------------------------------------------------------------
(* Claims about primitive traits (TraitSpec).                              *)

\* What the stratum installed under name n stores for the trait under test;
\* Undefined when no stratum is installed under n.
Stored(n) ==
    IF strata[n] = Absent THEN Undefined ELSE stratumGet(strata[n], trait.id, strata)

HigherAllUndefined(i) == \A j \in 1..(i - 1) : Stored(StratumOrder[j]) = Undefined

NothingStored == \A n \in StratumNames : Stored(n) = Undefined

\* C1: getValue returns the value of the first stratum, from the top of the
\* stack, whose stored value is not undefined; a lower stratum's value is never
\* returned while a higher stratum defines one.
C1_FirstDefinedWins ==
    result.op = "getValue" =>
        /\ \A i \in 1..Len(StratumOrder) :
              (Stored(StratumOrder[i]) # Undefined /\ HigherAllUndefined(i))
                  => result.value = Stored(StratumOrder[i])
        /\ NothingStored => result.value = Undefined

C1_Witness ==
    /\ result.op = "getValue"
    /\ strata[userStratumName] # Absent
    /\ Stored(userStratumName) = Undefined
    /\ Stored(definitionStratumName) = Str("A")
    /\ Stored(defaultsStratumName) = Str("B")
    /\ result.value = Str("A")

C3_NullIsDefined ==
    result.op = "getValue" =>
        \A i \in 1..Len(StratumOrder) :
            (Stored(StratumOrder[i]) = Null /\ HigherAllUndefined(i))
                => result.value = Null

C3_Witness ==
    /\ result.op = "getValue"
    /\ strata[userStratumName] # Absent
    /\ Stored(userStratumName) = Undefined
    /\ Stored(definitionStratumName) = Null
    /\ Stored(defaultsStratumName) = Str("B")
    /\ result.value = Null

\* C10: fromJson of a value whose typeof differs from the declared type, and
\* that is not a null allowed by isNullable, is an error Result titled
\* "Invalid property" that names the trait id, the expected and the actual
\* type, with severity Warning; never a success.
C10_TypeMismatchIsError ==
    (/\ result.op = "fromJson"
     /\ typeof(result.json) # trait.type
     /\ ~(trait.isNullable /\ result.json = Null)) =>
        /\ result.result.error
        /\ result.result.title = "Invalid property"
        /\ result.result.message =
              [property |-> trait.id, expected |-> trait.type,
               actual |-> typeof(result.json)]
        /\ result.result.severity = "Warning"

C10_Witness ==
    /\ result.op = "fromJson"
    /\ trait.type = "string"
    /\ trait.isNullable
    /\ result.json = Num(1)
    /\ result.result.error


\* C11: fromJson accepts null, as a success holding null, exactly when the
\* trait is nullable; a non-nullable trait answers null with the
\* invalid-property error; undefined is an error whatever isNullable is.
C11_NullAcceptedIffNullable ==
    result.op = "fromJson" =>
        /\ result.json = Null =>
              /\ ~result.result.error <=> trait.isNullable
              /\ ~result.result.error => result.result.value = Null
              /\ result.result.error =>
                    /\ result.result.title = "Invalid property"
                    /\ result.result.message.actual = "object"
        /\ result.json = Undefined =>
              /\ result.result.error
              /\ result.result.title = "Invalid property"

C11_Witness ==
    /\ result.op = "fromJson"
    /\ result.json = Null
    /\ trait.isNullable
    /\ ~result.result.error
    /\ result.result.value = Null

\* The values a primitive trait accepts: those of its declared type, and null
\* when it is nullable.
Accepted(tr, value) ==
    \/ typeof(value) = tr.type
    \/ tr.isNullable /\ value = Null

\* C12: for every value v the trait accepts, fromJson(toJson(v)) is a success
\* holding v, and a fresh model given that outcome as its one static stratum
\* resolves the trait to v.
C12_RoundTrip ==
    result.op = "roundTrip" /\ Accepted(trait, result.value) =>
        /\ ~result.result.error
        /\ result.result.value = result.value
        /\ result.restored = result.value

C12_Witness ==
    /\ result.op = "roundTrip"
    /\ trait.type = "number"
    /\ result.value = Num(1)
    /\ ~result.result.error
    /\ result.restored = Num(1)

\* C13: isSameType(other) is true exactly when other is a primitive trait of
\* the same type and the same isNullable, whatever its id and whether or not
\* it is the same object; it is reflexive and symmetric.
C13_SameTypeIffSameDeclaration ==
    result.op = "isSameType" =>
        /\ result.value <=>
              /\ result.other.kind = "primitive"
              /\ result.other.type = trait.type
              /\ result.other.isNullable = trait.isNullable
        /\ result.other = trait => result.value
        /\ result.other.kind = "primitive" => result.converse = result.value

C13_Witness ==
    /\ result.op = "isSameType"
    /\ result.other.kind = "primitive"
    /\ result.other.id # trait.id
    /\ trait.isNullable
    /\ result.value
    /\ result.converse

----------------------------------------------------------------------------
(* Spec: the metadata-load lifecycle of the item.                          *)

Init ==
    /\ strata = [n \in StratumNames |-> Absent]
    /\ trait = NoTrait
    /\ result = NoResult
    /\ LifecycleIdle
    /\ AuxIdle

isLoadingMetadata == loader.state = "Loading"

\* Promise callbacks run to completion before the next task: no request or
\* user action runs while a settled promise still has a callback to run.
TaskBoundary == promise.status \in {"none", "fetching"}

\* Mutant of MustStartLoad: every request starts a load.
MustStartLoadAlways(ld, input) == TRUE

\* Whether a loadMetadata request starts forceLoadMetadata: not while a load
\* is in flight, and not when the result loaded for the same input is held.
MustStartLoad(ld, input) ==
    /\ ld.state # "Loading"
    /\ ~(ld.state = "Loaded" /\ ld.input = input)

\* GetCapabilitiesStratum.load, were the document fetched whatever the URL.
GetCapabilitiesStratumLoadFetchingAnyway(s, id) ==
    [status |-> "fetching", load |-> id,
     url |-> IF getCapabilitiesUrl(s) = Undefined THEN UrlA
             ELSE getCapabilitiesUrl(s)]

\* GetCapabilitiesStratum.load(catalogItem), as load number id: rejected at
\* once without a fetch when getCapabilitiesUrl is undefined, otherwise the
\* capabilities document is being fetched.
GetCapabilitiesStratumLoad(s, id) ==
    IF getCapabilitiesUrl(s) = Undefined
    THEN [status |-> "rejected", load |-> id, error |-> "missingUrl"]
    ELSE [status |-> "fetching", load |-> id, url |-> getCapabilitiesUrl(s)]

\* The promises of load number id are settled with outcome o.
Settle(cs, id, o) ==
    [c \in Callers |->
        IF cs[c].outcome = "pending" /\ cs[c].load = id THEN o ELSE cs[c]]

\* loadMetadata() / loadMapItems(), called as request number c.
LoadMetadata(c) ==
    /\ TaskBoundary
    /\ callers[c] = Idle
    /\ \A d \in 1..(c - 1) : callers[d] # Idle
    /\ IF MustStartLoad(loader, getCapabilitiesUrl(strata))
       THEN /\ loadCount' = loadCount + 1
            /\ promise' = GetCapabilitiesStratumLoad(strata, loadCount + 1)
            /\ fetchCount' = IF promise'.status = "fetching"
                             THEN fetchCount + 1 ELSE fetchCount
            /\ loader' = [state |-> "Loading", input |-> getCapabilitiesUrl(strata)]
            /\ callers' = [callers EXCEPT
                             ![c] = [outcome |-> "pending", load |-> loadCount + 1]]
       ELSE /\ callers' = [callers EXCEPT
                             ![c] = [outcome |-> IF isLoadingMetadata
                                                 THEN "pending" ELSE "resolved",
                                     load |-> loadCount]]
            /\ UNCHANGED <<loader, promise, fetchCount, loadCount>>
    /\ UNCHANGED <<auxVars, strata, trait, result>>

\* WebMapServiceCapabilities.fromUrl resolves: the stratum is constructed.
FetchResolves ==
    /\ promise.status = "fetching"
    /\ promise' = [status |-> "constructed", load |-> promise.load,
                   stratum |-> GetCapabilitiesStratum(
                                   FreshRef(strata, getCapabilitiesStratumName), Item,
                                   CapabilitiesFromUrl(promise.url))]
    /\ UNCHANGED <<auxVars, strata, trait, result, loader, callers, fetchCount, loadCount>>

\* WebMapServiceCapabilities.fromUrl rejects.
FetchRejects ==
    /\ promise.status = "fetching"
    /\ promise' = [status |-> "rejected", load |-> promise.load,
                   error |-> "fetchFailed"]
    /\ UNCHANGED <<auxVars, strata, trait, result, loader, callers, fetchCount, loadCount>>

\* forceLoadMetadata's then-callback runs with the constructed stratum.
ForceLoadMetadataFulfilled ==
    /\ strata' = forceLoadMetadataInstall(strata, promise.stratum,
                                          FreshRef(strata, diffStratumName))
    /\ promise' = NoPromise
    /\ fetchCount' = fetchCount

InstallStrata ==
    /\ promise.status = "constructed"
    /\ ForceLoadMetadataFulfilled
    /\ loader' = [loader EXCEPT !.state = "Loaded"]
    /\ callers' = Settle(callers, promise.load,
                         [outcome |-> "resolved", load |-> promise.load])
    /\ UNCHANGED <<auxVars, trait, result, loadCount>>

\* Mutant of ForceLoadMetadataRejected: the load is tried again.
ForceLoadMetadataRejectedRetries ==
    /\ strata' = strata
    /\ promise' = GetCapabilitiesStratumLoad(strata, promise.load)
    /\ fetchCount' = IF promise'.status = "fetching"
                     THEN fetchCount + 1 ELSE fetchCount

\* The rejection of GetCapabilitiesStratum.load reaches forceLoadMetadata's
\* promise.
ForceLoadMetadataRejected ==
    /\ strata' = forceLoadMetadataOnRejected(strata, FreshRef(strata, diffStratumName))
    /\ promise' = NoPromise
    /\ fetchCount' = fetchCount

LoadRejected ==
    /\ promise.status = "rejected"
    /\ ForceLoadMetadataRejected
    /\ loader' = [loader EXCEPT !.state = "Failed"]
    /\ callers' = Settle(callers, promise.load,
                         [outcome |-> "rejected", load |-> promise.load,
                          error |-> promise.error])
    /\ UNCHANGED <<auxVars, trait, result, loadCount>>

\* The user configures the source URL of the item.
SetUrl(url) ==
    /\ TaskBoundary
    /\ traitValue(strata, "url") # url
    /\ strata' = setTrait(strata, userStratumName, "url", url, FreshRef(strata, userStratumName))
    /\ UNCHANGED <<auxVars, trait, result, lifecycleVars>>

\* The four writes of showDiffImage.
showDiffImageWrites(s, firstDate, secondDate, diffStyleId) ==
    LET ref == FreshRef(s, userStratumName)
        s1 == setTrait(s, userStratumName, "firstDiffDate",
                       getTagForTime(firstDate), ref)
        s2 == setTrait(s1, userStratumName, "secondDiffDate",
                       getTagForTime(secondDate), ref)
        s3 == setTrait(s2, userStratumName, "diffStyleId",
                       Str(diffStyleId), ref)
    IN  setTrait(s3, userStratumName, "isShowingDiff", Bool(TRUE), ref)

\* showDiffImage, were canDiffImages not consulted.
showDiffImageUnconditionally(s, firstDate, secondDate, diffStyleId) ==
    showDiffImageWrites(s, firstDate, secondDate, diffStyleId)

\* showDiffImage(firstDate, secondDate, diffStyleId): the strata it leaves.
showDiffImage(s, firstDate, secondDate, diffStyleId) ==
    IF ~canDiffImages(s)
    THEN s
    ELSE showDiffImageWrites(s, firstDate, secondDate, diffStyleId)

\* The record of a showDiffImage call: calls alternate between two marks.
ShowDiffImageCall(last) ==
    [op |-> "showDiffImage",
     mark |-> IF last.op = "showDiffImage" THEN 1 - last.mark ELSE 0]

\* The user asks for the difference of two dates.
ShowDiffImage(firstDate, secondDate, diffStyleId) ==
    /\ TaskBoundary
    /\ strata' = showDiffImage(strata, firstDate, secondDate, diffStyleId)
    /\ result' = ShowDiffImageCall(result)
    /\ UNCHANGED <<auxVars, trait, lifecycleVars>>

\* clearDiffImage()
ClearDiffImage ==
    /\ TaskBoundary
    /\ LET ref == FreshRef(strata, userStratumName)
           s1 == setTrait(strata, userStratumName, "firstDiffDate", Undefined, ref)
           s2 == setTrait(s1, userStratumName, "secondDiffDate", Undefined, ref)
           s3 == setTrait(s2, userStratumName, "diffStyleId", Undefined, ref)
       IN  strata' = setTrait(s3, userStratumName, "isShowingDiff", Bool(FALSE), ref)
    /\ UNCHANGED <<auxVars, trait, result, lifecycleVars>>

\* combine(newParameters, userStrata.parameters): the properties of both,
\* those of the first winning.
combine(object1, object2) ==
    IF object2 = Undefined \/ object1.styles # Undefined THEN object1 ELSE object2

\* styleSelector.chooseActiveStyle(strata, newStyle)
ChooseActiveStyle(newStyle) ==
    /\ TaskBoundary
    /\ styleSelectorDefined(strata)
    /\ LET userStrata == strata[userStratumName]
           newParameters == [t |-> "object", styles |-> Str(newStyle)]
           combined == IF userStrata # Absent
                       THEN combine(newParameters, userStrata.values["parameters"])
                       ELSE newParameters
       IN  strata' = setTrait(strata, userStratumName, "parameters", combined,
                              FreshRef(strata, userStratumName))
    /\ UNCHANGED <<auxVars, trait, result, lifecycleVars>>

Next ==
    \/ \E c \in Callers : LoadMetadata(c)
    \/ FetchResolves
    \/ FetchRejects
    \/ InstallStrata
    \/ LoadRejected
    \/ \E url \in Urls \cup {Undefined} : SetUrl(url)
    \/ \E firstDate \in {"d1", "dX"} : ShowDiffImage(firstDate, "d2", "ndvi")
    \/ ClearDiffImage
    \/ \E newStyle \in {"s1", "ndvi"} : ChooseActiveStyle(newStyle)

Spec == Init /\ [][Next]_vars

----------------------------------------------------------------------------
(* Claims about the load lifecycle (Spec).                                 *)

NewRequest == \E c \in Callers : callers[c] = Idle /\ callers'[c] # Idle

Settled(c) == callers[c].outcome \in {"resolved", "rejected"}

\* C4: a load-metadata request made while a load is in flight starts no second
\* fetch: no fetch starts while the item is loading, the request is attached
\* to the load in flight, and the callers of one load receive the same outcome.
C4_CoalescedLoads ==
    [][/\ isLoadingMetadata => fetchCount' = fetchCount /\ loadCount' = loadCount
       /\ (isLoadingMetadata /\ NewRequest) =>
              /\ promise' = promise
              /\ \A c \in Callers :
                    callers'[c] # callers[c] =>
                        callers'[c] = [outcome |-> "pending", load |-> promise.load]
       /\ \A c1, c2 \in Callers :
              (/\ callers'[c1] # Idle
               /\ callers'[c2] # Idle
               /\ callers'[c1].load = callers'[c2].load)
                  => \/ callers'[c1] = callers'[c2]
                     \/ "pending" \in {callers'[c1].outcome, callers'[c2].outcome}
      ]_vars

C4_Witness ==
    /\ promise.status = "fetching"
    /\ callers[1] = [outcome |-> "pending", load |-> 1]
    /\ callers[2] = [outcome |-> "pending", load |-> 1]
    /\ fetchCount = 1
    /\ loadCount = 1

\* C5: when the configured URL has changed since a load started, the stratum
\* of that load is not installed when its response arrives.
C5_StaleLoadNotInstalled ==
    [][(promise.status = "constructed" /\ loader.input # getCapabilitiesUrl(strata))
          => strata'[getCapabilitiesStratumName] = strata[getCapabilitiesStratumName]
      ]_vars

\* C6: when the load rejects, the callers of forceLoadMetadata are rejected
\* with that failure and the strata map is left as it was: neither the
\* getCapabilities nor the diff stratum is installed or replaced.
C6_RejectionInstallsNothing ==
    [][/\ promise.status \in {"fetching", "rejected"} =>
              /\ strata'[getCapabilitiesStratumName] = strata[getCapabilitiesStratumName]
              /\ strata'[diffStratumName] = strata[diffStratumName]
       /\ (promise.status = "rejected" /\ promise' # promise) =>
              /\ strata' = strata
              /\ loader'.state = "Failed"
              /\ \A c \in Callers :
                    (callers[c].outcome = "pending" /\ callers[c].load = promise.load)
                        => callers'[c] = [outcome |-> "rejected", load |-> promise.load,
                                          error |-> promise.error]
      ]_vars

C6_Witness ==
    /\ loader.state = "Failed"
    /\ callers[1].outcome = "resolved"
    /\ callers[2].outcome = "rejected"
    /\ callers[2].error = "fetchFailed"
    /\ strata[getCapabilitiesStratumName] # Absent
    /\ strata[getCapabilitiesStratumName].capabilities.source = UrlA
    /\ strata[diffStratumName] # Absent

\* C7: the getCapabilities stratum and the diff stratum of one
\* forceLoadMetadata are installed together: in every state both are installed
\* or neither is, and no step replaces one without the other.
C7_AtomicInstall ==
    [][/\ (strata'[getCapabilitiesStratumName] = Absent)
              <=> (strata'[diffStratumName] = Absent)
       /\ (strata'[getCapabilitiesStratumName] # strata[getCapabilitiesStratumName])
              <=> (strata'[diffStratumName] # strata[diffStratumName])
      ]_vars

C7_Witness ==
    /\ strata[getCapabilitiesStratumName] # Absent
    /\ strata[getCapabilitiesStratumName].ref = 2
    /\ strata[getCapabilitiesStratumName].capabilities.source = UrlB
    /\ strata[diffStratumName] # Absent
    /\ strata[diffStratumName].ref = 2

\* C8: no fetch starts on its own after a failure: every fetch is started by
\* a load request, which puts the item in Loading; a load that then succeeds
\* installs its stratum.
C8_NoAutomaticRetry ==
    [][/\ fetchCount' # fetchCount =>
              /\ NewRequest
              /\ fetchCount' = fetchCount + 1
              /\ loader'.state = "Loading"
       /\ (loader.state = "Failed" /\ loader' # loader) =>
              /\ NewRequest
              /\ loader'.state = "Loading"
       /\ (loader.state = "Loading" /\ loader'.state = "Loaded") =>
              /\ promise.status = "constructed"
              /\ strata'[getCapabilitiesStratumName] = promise.stratum
      ]_vars

C8_Witness ==
    /\ callers[1].outcome = "rejected"
    /\ callers[1].error = "fetchFailed"
    /\ callers[2] = [outcome |-> "resolved", load |-> 2]
    /\ fetchCount = 2
    /\ loader.state = "Loaded"
    /\ strata[getCapabilitiesStratumName] # Absent

----------------------------------------------------------------------------
(* DupSpec: the item, loaded, is duplicated into a second model: a bare    *)
(* copy is created and every installed stratum is duplicated into it; the  *)
(* copy is then written to and loads its own metadata.                     *)
(*   copy = [state, strata, op]   op: the last operation on the copy;      *)
(*   state is "duplicating" until every stratum of the item is duplicated. *)
(* Stratum objects created for the copy have refs 3 and 4, so that a       *)
(* stratum of the copy with ref 1 or 2 is an object of the original.       *)

MaxCopyLoads == 2

\* The duplicate model.
CopyItem == "copy"

CopyFreshRef(cs, name) ==
    IF cs[name] = Absent \/ cs[name].ref = 4 THEN 3 ELSE 4

\* Mutants of duplicateLoadableStratum: the stratum itself is handed to the
\* new model; the new stratum keeps the owner of the old one; the new
\* GetCapabilities stratum is given the document of the new owner's URL.
duplicateLoadableStratumReturningThis(stratum, model, ref) == stratum

duplicateLoadableStratumKeepingOwner(stratum, model, ref) ==
    IF stratum.kind = "getCapabilities"
    THEN GetCapabilitiesStratum(ref, stratum.catalogItem, stratum.capabilities)
    ELSE DiffStratum(ref, stratum.catalogItem)

\* stratum.duplicateLoadableStratum(model); ref is the object `new` creates.
duplicateLoadableStratum(stratum, model, ref) ==
    IF stratum.kind = "getCapabilities"
    THEN GetCapabilitiesStratum(ref, model, stratum.capabilities)
    ELSE DiffStratum(ref, model)

\* The duplicate of a static stratum: a new object with the same values.
duplicateStaticStratum(stratum, ref) == StaticStratum(ref, stratum.values)

\* The item as loaded from one of the URLs, with or without a difference
\* image showing; the URL may have been changed since the load.
LoadedStrata ==
    {[n \in StratumNames |->
        CASE n = userStratumName ->
               StaticStratum(1, [EmptyValues EXCEPT
                                    !["url"] = url,
                                    !["isShowingDiff"] = showing])
          [] n = getCapabilitiesStratumName ->
               GetCapabilitiesStratum(r, Item, Capabilities(loadedFrom))
          [] n = diffStratumName -> DiffStratum(r, Item)
          [] OTHER -> Absent] :
        url \in Urls, loadedFrom \in Urls, r \in {1, 2},
        showing \in {Undefined, Bool(TRUE)}}

DupInit ==
    /\ strata \in LoadedStrata
    /\ trait = NoTrait
    /\ result = NoResult
    /\ loader = [state |-> "Loaded", input |-> strata[getCapabilitiesStratumName].capabilities.source]
    /\ promise = NoPromise
    /\ callers = [c \in Callers |-> Idle]
    /\ fetchCount = 1
    /\ loadCount = 1
    /\ copy = NoCopy
    /\ table = NoTable
    /\ export = NoExport
    /\ LateIdle

dupFrame == <<strata, trait, result, lifecycleVars, table, export, lateVars>>

\* new WebMapServiceCatalogItem(...): the copy, no stratum installed yet.
CreateCopy ==
    /\ copy = NoCopy
    /\ copy' = [state |-> "duplicating",
                strata |-> [n \in StratumNames |-> Absent],
                op |-> [kind |-> "create"]]
    /\ UNCHANGED dupFrame

\* copy.strata.set(name, stratum.duplicateLoadableStratum(copy)) for a
\* loadable stratum of the item, the duplicate of a static stratum otherwise.
DuplicateStratum(name) ==
    /\ copy.state = "duplicating"
    /\ strata[name] # Absent
    /\ copy.strata[name] = Absent
    /\ LET old == strata[name]
           ref == CopyFreshRef(copy.strata, name)
           new == IF old.kind = "static"
                  THEN duplicateStaticStratum(old, ref)
                  ELSE duplicateLoadableStratum(old, CopyItem, ref)
           last == \A n \in StratumNames \ {name} :
                      strata[n] # Absent => copy.strata[n] # Absent
       IN  copy' = [state |-> IF last THEN "duplicated" ELSE "duplicating",
                    strata |-> [copy.strata EXCEPT ![name] = new],
                    op |-> [kind |-> "duplicate", name |-> name]]
    /\ UNCHANGED dupFrame

\* copy.setTrait("user", id, value)
CopySetTrait(id, value) ==
    /\ copy.state = "duplicated"
    /\ copy' = [copy EXCEPT
                  !.strata = setTrait(copy.strata, userStratumName, id, value,
                                      CopyFreshRef(copy.strata, userStratumName)),
                  !.op = [kind |-> "setTrait", name |-> userStratumName]]
    /\ UNCHANGED dupFrame

\* copy.strata.delete(name)
CopyRemoveStratum(name) ==
    /\ copy.state = "duplicated"
    /\ copy.strata[name] # Absent
    /\ copy' = [copy EXCEPT !.strata[name] = Absent,
                            !.op = [kind |-> "delete", name |-> name]]
    /\ UNCHANGED dupFrame

\* The copy loads its own metadata, to completion: the document fetched
\* from its URL is a new object, and both strata of the copy are replaced.
CopyForceLoadMetadata ==
    /\ copy.state = "duplicated"
    /\ fetchCount < 1 + MaxCopyLoads
    /\ getCapabilitiesUrl(copy.strata) # Undefined
    /\ LET document == [source |-> Str(getCapabilitiesUrl(copy.strata).v),
                        parsedFor |-> CopyItem, fetch |-> fetchCount + 1]
           stratum == GetCapabilitiesStratum(
                          CopyFreshRef(copy.strata, getCapabilitiesStratumName),
                          CopyItem, document)
       IN  copy' = [copy EXCEPT
                      !.strata = [copy.strata EXCEPT
                          ![getCapabilitiesStratumName] = stratum,
                          ![diffStratumName] =
                              DiffStratum(CopyFreshRef(copy.strata, diffStratumName),
                                          CopyItem)],
                      !.op = [kind |-> "load"]]
    /\ fetchCount' = fetchCount + 1
    /\ UNCHANGED <<strata, trait, result, loader, promise, callers, loadCount,
                   table, export, lateVars>>

DupNext ==
    \/ CreateCopy
    \/ \E name \in StratumNames : DuplicateStratum(name)
    \/ \E value \in Urls \cup {Undefined} : CopySetTrait("url", value)
    \/ \E name \in StratumNames : CopyRemoveStratum(name)
    \/ CopyForceLoadMetadata

DupSpec == DupInit /\ [][DupNext]_vars

\* The resolved values of the traits of a model whose strata are s.
Resolved(s) == [id \in TraitIds |-> traitValue(s, id)]

\* The stratum objects and documents a strata map holds.
StratumObjects(s) ==
    {<<n, s[n].ref>> : n \in {m \in StratumNames : s[m] # Absent}}

\* C15: duplicateLoadableStratum(newModel) on a GetCapabilities or diff
\* stratum returns a new stratum object of the same kind, owned by newModel
\* and, for GetCapabilities, holding the document the original holds; no fetch
\* is started and the stratum and the strata map of the original are unchanged.
C15_DuplicateLoadableStratum ==
    [][(copy'.op.kind = "duplicate" /\ copy' # copy
            /\ copy'.op.name \in {getCapabilitiesStratumName, diffStratumName}) =>
          LET name == copy'.op.name
              old == strata[name]
              new == copy'.strata[name]
          IN  /\ new.kind = old.kind
              /\ new.ref \notin {old.ref} \cup {1, 2}
              /\ new.catalogItem = CopyItem
              /\ name = getCapabilitiesStratumName =>
                    new.capabilities = old.capabilities
              /\ fetchCount' = fetchCount
              /\ promise' = promise
              /\ strata' = strata]_vars

C15_Witness ==
    /\ copy # NoCopy
    /\ copy.op.kind = "duplicate"
    /\ copy.op.name = getCapabilitiesStratumName
    /\ copy.strata[getCapabilitiesStratumName].catalogItem = CopyItem
    /\ copy.strata[getCapabilitiesStratumName].capabilities =
           strata[getCapabilitiesStratumName].capabilities
    /\ copy.strata[diffStratumName] # Absent

----------------------------------------------------------------------------
(* mapItems of the item (Spec).  The discrete time tags of the current and *)
(* the next time come from the time mixin: every pair of tags is tried.    *)

TimeTags == {Undefined, Str("t1"), Str("t2")}

\* Mutant of createImageryProvider: no test of isLoadingMetadata.
createImageryProviderWhileLoading(s, loading, time) ==
    IF traitValue(s, "url") = Undefined THEN Undefined
    ELSE [t |-> "imageryProvider", url |-> traitValue(s, "url"),
          layers |-> traitValue(s, "layers"), time |-> time]

\* this._createImageryProvider(time); loading is this.isLoadingMetadata
createImageryProvider(s, loading, time) ==
    IF loading THEN Undefined
    ELSE IF traitValue(s, "url") = Undefined THEN Undefined
    ELSE [t |-> "imageryProvider", url |-> traitValue(s, "url"),
          layers |-> traitValue(s, "layers"), time |-> time]

ImageryParts(imageryProvider, alpha) ==
    [imageryProvider |-> imageryProvider, alpha |-> alpha]

currentImageryParts(s, loading, currentDiscreteTimeTag) ==
    LET imageryProvider == createImageryProvider(s, loading, currentDiscreteTimeTag)
    IN  IF imageryProvider = Undefined THEN Undefined
        ELSE ImageryParts(imageryProvider, "opacity")

nextImageryParts(s, loading, nextDiscreteTimeTag) ==
    IF nextDiscreteTimeTag # Undefined
    THEN LET imageryProvider == createImageryProvider(s, loading, nextDiscreteTimeTag)
         IN  IF imageryProvider = Undefined THEN Undefined
             ELSE ImageryParts(imageryProvider, "0.0")
    ELSE Undefined

diffImageryParts(s, loading) ==
    IF \/ traitValue(s, "firstDiffDate") = Undefined
       \/ traitValue(s, "secondDiffDate") = Undefined
       \/ traitValue(s, "diffStyleId") = Undefined
    THEN Undefined
    ELSE LET time == <<traitValue(s, "firstDiffDate"), traitValue(s, "secondDiffDate")>>
             imageryProvider == createImageryProvider(s, loading, time)
         IN  IF imageryProvider # Undefined
             THEN ImageryParts(imageryProvider, "opacity")
             ELSE Undefined

\* get mapItems()
mapItems(s, loading, currentDiscreteTimeTag, nextDiscreteTimeTag) ==
    IF traitValue(s, "isShowingDiff") = Bool(TRUE)
    THEN IF diffImageryParts(s, loading) # Undefined
         THEN <<diffImageryParts(s, loading)>>
         ELSE <<>>
    ELSE LET current == currentImageryParts(s, loading, currentDiscreteTimeTag)
             next == nextImageryParts(s, loading, nextDiscreteTimeTag)
         IN  (IF current # Undefined THEN <<current>> ELSE <<>>)
             \o (IF next # Undefined THEN <<next>> ELSE <<>>)

\* C18: while the metadata load of the item is in flight, mapItems is empty,
\* with a difference image showing or not and whatever the time tags are.
C18_NothingShownWhileLoading ==
    isLoadingMetadata =>
        \A current \in TimeTags, next \in TimeTags :
            mapItems(strata, isLoadingMetadata, current, next) = <<>>

C18_Witness ==
    /\ isLoadingMetadata
    /\ traitValue(strata, "url") # Undefined
    /\ traitValue(strata, "isShowingDiff") = Bool(TRUE)
    /\ traitValue(strata, "firstDiffDate") # Undefined
    /\ traitValue(strata, "diffStyleId") # Undefined
    /\ strata[getCapabilitiesStratumName] # Absent
    /\ mapItems(strata, FALSE, Str("t1"), Str("t2")) # <<>>

----------------------------------------------------------------------------
(* ExportSpec: the ExportData view.  Each click calls exportData(item);    *)
(* the promise of item.exportData() is fulfilled with some data or         *)
(* rejected with some value, and the callbacks of the view run.            *)
(*   export = [pending, rejected, raised, opened, saved, clicks]           *)
(* rejected is the history of the values the promise was rejected with;    *)
(* raised, opened and saved are what the view did: terria.error events,    *)
(* window.open calls, FileSaver.saveAs calls.                              *)

MaxExports == 3

TerriaError(title) == [t |-> "object", class |-> "TerriaError", title |-> title]
Error(message) == [t |-> "object", class |-> "Error", message |-> message]

\* Values item.exportData() may reject with.
RejectionValues ==
    {TerriaError("export failed"), Error("network"), Str("timeout"), Undefined}

\* Values item.exportData() may be fulfilled with.
ExportedData ==
    {Undefined, Str("http://a/result.tif"),
     [t |-> "object", file |-> "blob", name |-> "data.csv"],
     EmptyObject}

\* e instanceof TerriaError
instanceofTerriaError(e) ==
    /\ e.t = "object"
    /\ "class" \in DOMAIN e
    /\ e.class = "TerriaError"

ExportInit ==
    /\ strata = [n \in StratumNames |-> Absent]
    /\ trait = NoTrait
    /\ result = NoResult
    /\ LifecycleIdle
    /\ copy = NoCopy
    /\ table = NoTable
    /\ export = [pending |-> FALSE, rejected |-> <<>>, raised |-> <<>>,
                 opened |-> <<>>, saved |-> <<>>, clicks |-> 0]
    /\ LateIdle

exportFrame == <<strata, trait, result, lifecycleVars, copy, table, lateVars>>

\* onClick: exportData(item) calls item.exportData()
ExportClick ==
    /\ ~export.pending
    /\ export.clicks < MaxExports
    /\ export' = [export EXCEPT !.pending = TRUE, !.clicks = @ + 1]
    /\ UNCHANGED exportFrame

\* The then-callback of exportData.
ExportFulfilled(data) ==
    /\ export.pending
    /\ export' =
         IF data = Undefined
         THEN [export EXCEPT !.pending = FALSE]
         ELSE IF typeof(data) = "string"
         THEN [export EXCEPT !.pending = FALSE, !.opened = Append(@, data)]
         ELSE IF "file" \in DOMAIN data /\ "name" \in DOMAIN data
         THEN [export EXCEPT !.pending = FALSE,
                             !.saved = Append(@, <<data.file, data.name>>)]
         ELSE [export EXCEPT !.pending = FALSE]
    /\ UNCHANGED exportFrame

\* The catch-callback of exportData.
ExportRejected(e) ==
    /\ export.pending
    /\ export' =
         IF instanceofTerriaError(e)
         THEN [export EXCEPT !.pending = FALSE,
                             !.rejected = Append(@, e),
                             !.raised = Append(@, e)]
         ELSE [export EXCEPT !.pending = FALSE,
                             !.rejected = Append(@, e)]
    /\ UNCHANGED exportFrame

ExportNext ==
    \/ ExportClick
    \/ \E data \in ExportedData : ExportFulfilled(data)
    \/ \E e \in RejectionValues : ExportRejected(e)

ExportSpec == ExportInit /\ [][ExportNext]_vars

\* C19: every value the promise of item.exportData() is rejected with has
\* been raised on terria.error once its callbacks have run, whatever the
\* type of the value.
C19_EveryRejectionRaised ==
    export # NoExport =>
        /\ Len(export.raised) = Len(export.rejected)
        /\ \A i \in 1..Len(export.rejected) : export.raised[i] = export.rejected[i]

----------------------------------------------------------------------------
(* TableColorMap.                                                          *)
(*   table = [title, colorColumn, colorTraits, zScoreFilterValues]         *)
(*   colorColumn = Undefined or [type, values, regionIds]                  *)
(* values are the rows of the column as numbers (or null); regionIds are   *)
(* the region ids of the rows in the region column of the active style, or *)
(* Undefined when the style has no region column.  Numbers are Num(n),     *)
(* Infinity and -Infinity.  A colour is [color |-> css].  An array held by *)
(* a trait or returned by a getter that may return undefined is            *)
(* Array(items), so that it compares with Undefined.                       *)

Array(items) == [t |-> "object", items |-> items]

Infinity == [t |-> "number", v |-> 0, infinite |-> "+"]
NegativeInfinity == [t |-> "number", v |-> 0, infinite |-> "-"]

\* a < b
LessThan(a, b) ==
    CASE a = Infinity -> FALSE
      [] a = NegativeInfinity -> b # NegativeInfinity
      [] b = Infinity -> TRUE
      [] b = NegativeInfinity -> FALSE
      [] OTHER -> a.v < b.v

isDefined(value) == value # Undefined /\ value # Null

RECURSIVE getMinFrom(_, _, _)
getMinFrom(array, i, a) ==
    IF i > Len(array) THEN a
    ELSE getMinFrom(array, i + 1, IF LessThan(array[i], a) THEN array[i] ELSE a)

RECURSIVE getMaxFrom(_, _, _)
getMaxFrom(array, i, a) ==
    IF i > Len(array) THEN a
    ELSE getMaxFrom(array, i + 1, IF LessThan(a, array[i]) THEN array[i] ELSE a)

\* array.reduce((a, b) => (b < a ? b : a), Infinity)
getMin(array) == getMinFrom(array, 1, Infinity)

\* array.reduce((a, b) => (a < b ? b : a), -Infinity)
getMax(array) == getMaxFrom(array, 1, NegativeInfinity)

DEFAULT_COLOR == "yellow"
InvalidCssColor == "notacolor"
TRANSPARENT == [color |-> "transparent"]

\* Color.fromCssColorString(css): undefined for a string that is no colour.
fromCssColorString(css) ==
    IF css = InvalidCssColor THEN Undefined ELSE [color |-> css]

\* getColorForId(title): a CSS colour made for the id.
getColorForId(title) == "colorFor" \o title

\* Size of the categorical palette colorScaleCategorical resolves to.
PaletteSize == 2

\* this.colorScaleCategorical(numberOfBins): the palette, as CSS strings.
colorScaleCategorical(tcm, numberOfBins) ==
    [i \in 1..PaletteSize |-> "palette" \o ToString(i)]

\* Columns (TableColumn).
NotNull(value) == value # Null

\* colorColumn.valuesAsNumbers.minimum / maximum
valuesMinimum(column) ==
    LET numbers == SelectSeq(column.values, NotNull)
    IN  IF numbers = <<>> THEN Undefined ELSE getMin(numbers)

valuesMaximum(column) ==
    LET numbers == SelectSeq(column.values, NotNull)
    IN  IF numbers = <<>> THEN Undefined ELSE getMax(numbers)

RECURSIVE UniqueFrom(_, _, _)
UniqueFrom(values, i, seen) ==
    IF i > Len(values) THEN seen
    ELSE IF values[i] = Null \/ \E j \in 1..Len(seen) : seen[j] = values[i]
    THEN UniqueFrom(values, i + 1, seen)
    ELSE UniqueFrom(values, i + 1, Append(seen, values[i]))

\* colorColumn.uniqueValues.values
uniqueValues(column) == UniqueFrom(column.values, 1, <<>>)

\* get regionValues()
regionValues(tcm) ==
    IF tcm.colorColumn = Undefined THEN Undefined
    ELSE IF tcm.colorColumn.type # "scalar" \/ tcm.colorColumn.regionIds = Undefined
    THEN Undefined
    ELSE Array([rowIndex \in 1..Len(tcm.colorColumn.regionIds.items) |->
            IF tcm.colorColumn.regionIds.items[rowIndex] # Null
            THEN IF rowIndex <= Len(tcm.colorColumn.values)
                 THEN tcm.colorColumn.values[rowIndex]
                 ELSE Null
            ELSE Null])

\* get validValues()
validValues(tcm) ==
    LET values == IF regionValues(tcm) # Undefined THEN regionValues(tcm)
                  ELSE IF tcm.colorColumn # Undefined
                  THEN Array(tcm.colorColumn.values)
                  ELSE Undefined
    IN  IF values # Undefined
        THEN Array(SelectSeq(values.items, NotNull))
        ELSE Undefined

\* get zScoreFilterValues(): undefined without a column, valid values or a
\* zScoreFilter; otherwise what the filter over the row groups leaves, which
\* the table carries as tcm.zScoreFilterValues.
zScoreFilterValues(tcm) ==
    IF \/ tcm.colorColumn = Undefined
       \/ validValues(tcm) = Undefined
       \/ Len(validValues(tcm).items) = 0
       \/ ~isDefined(tcm.colorTraits.zScoreFilter)
    THEN Undefined
    ELSE tcm.zScoreFilterValues

\* get minimumValue()
minimumValue(tcm) ==
    IF zScoreFilterValues(tcm) # Undefined /\ tcm.colorTraits.zScoreFilterEnabled
    THEN zScoreFilterValues(tcm).min
    ELSE IF validValues(tcm) # Undefined THEN getMin(validValues(tcm).items)
    ELSE Undefined

\* get maximumValue()
maximumValue(tcm) ==
    IF zScoreFilterValues(tcm) # Undefined /\ tcm.colorTraits.zScoreFilterEnabled
    THEN zScoreFilterValues(tcm).max
    ELSE IF validValues(tcm) # Undefined THEN getMax(validValues(tcm).items)
    ELSE Undefined

\* binMaximums without a binMaximums trait: numberOfBins equal steps from the
\* column minimum to the column maximum.
computedBinMaximums(tcm) ==
    LET colorColumn == tcm.colorColumn
    IN  IF tcm.colorTraits.numberOfBins = 0 THEN <<>>
        ELSE LET min == valuesMinimum(colorColumn)
                 max == valuesMaximum(colorColumn)
             IN  IF min = Undefined \/ max = Undefined THEN <<>>
                 ELSE LET numberOfBins ==
                              IF Len(uniqueValues(colorColumn)) < tcm.colorTraits.numberOfBins
                              THEN Len(uniqueValues(colorColumn))
                              ELSE tcm.colorTraits.numberOfBins
                          step == (max.v - min.v) \div numberOfBins
                      IN  [i \in 1..(numberOfBins - 1) |-> Num(min.v + i * step)]
                          \o <<max>>

\* Mutant of binMaximums: the column maximum is appended also when the last
\* entry of the trait equals it.
binMaximumsAppendingWhenEqual(tcm) ==
    LET colorColumn == tcm.colorColumn
        traitMaximums == IF tcm.colorTraits.binMaximums # Undefined
                         THEN tcm.colorTraits.binMaximums.items ELSE <<>>
    IN  IF colorColumn = Undefined
        THEN traitMaximums
        ELSE IF tcm.colorTraits.binMaximums # Undefined
        THEN IF /\ colorColumn.type = "scalar"
                /\ valuesMaximum(colorColumn) # Undefined
                /\ \/ Len(traitMaximums) = 0
                   \/ ~LessThan(valuesMaximum(colorColumn),
                                traitMaximums[Len(traitMaximums)])
             THEN Append(traitMaximums, valuesMaximum(colorColumn))
             ELSE traitMaximums
        ELSE computedBinMaximums(tcm)

\* get binMaximums()
binMaximums(tcm) ==
    LET colorColumn == tcm.colorColumn
        traitMaximums == IF tcm.colorTraits.binMaximums # Undefined
                         THEN tcm.colorTraits.binMaximums.items ELSE <<>>
    IN  IF colorColumn = Undefined
        THEN traitMaximums
        ELSE IF tcm.colorTraits.binMaximums # Undefined
        THEN IF /\ colorColumn.type = "scalar"
                /\ valuesMaximum(colorColumn) # Undefined
                /\ \/ Len(traitMaximums) = 0
                   \/ LessThan(traitMaximums[Len(traitMaximums)],
                               valuesMaximum(colorColumn))
             THEN Append(traitMaximums, valuesMaximum(colorColumn))
             ELSE traitMaximums
        ELSE computedBinMaximums(tcm)

\* Mutant of binColors: a colour for every entry of the binColors trait when
\* the trait is set, for every bin otherwise.
binColorsFromTrait(tcm) ==
    LET traitColors == IF tcm.colorTraits.binColors # Undefined
                       THEN tcm.colorTraits.binColors.items ELSE <<>>
        colorScale == colorScaleCategorical(tcm, Len(binMaximums(tcm)))
    IN  IF Len(traitColors) > 0
        THEN [i \in 1..Len(traitColors) |->
                IF fromCssColorString(traitColors[i]) # Undefined
                THEN fromCssColorString(traitColors[i])
                ELSE TRANSPARENT]
        ELSE [i \in 1..Len(binMaximums(tcm)) |->
                fromCssColorString(colorScale[((i - 1) % Len(colorScale)) + 1])]

\* get binColors()
binColors(tcm) ==
    LET numberOfBins == Len(binMaximums(tcm))
        traitColors == IF tcm.colorTraits.binColors # Undefined
                       THEN tcm.colorTraits.binColors.items ELSE <<>>
        colorScale == colorScaleCategorical(tcm, Len(binMaximums(tcm)))
    IN  [i \in 1..numberOfBins |->
            IF i <= Len(traitColors)
            THEN IF fromCssColorString(traitColors[i]) # Undefined
                 THEN fromCssColorString(traitColors[i])
                 ELSE TRANSPARENT
            ELSE fromCssColorString(colorScale[((i - 1) % Len(colorScale)) + 1])]

\* get enumColors()
enumColors(tcm) ==
    IF tcm.colorTraits.enumColors # Undefined
       /\ Len(tcm.colorTraits.enumColors.items) > 0
    THEN tcm.colorTraits.enumColors.items
    ELSE IF tcm.colorColumn = Undefined THEN <<>>
    ELSE LET unique == uniqueValues(tcm.colorColumn)
             colorScale == colorScaleCategorical(tcm, Len(unique))
         IN  [i \in 1..Len(colorScale) |->
                [value |-> IF i <= Len(unique) THEN unique[i] ELSE Undefined,
                 color |-> Str(colorScale[i])]]

\* get nullColor()
nullColor(tcm) ==
    IF tcm.colorTraits.nullColor # Undefined
    THEN IF fromCssColorString(tcm.colorTraits.nullColor.v) # Undefined
         THEN fromCssColorString(tcm.colorTraits.nullColor.v)
         ELSE TRANSPARENT
    ELSE TRANSPARENT

\* get regionColor()
regionColor(tcm) == fromCssColorString(tcm.colorTraits.regionColor.v)

\* this.colorScaleContinuous()(1)
colorScaleContinuousAtOne == "continuous1"

\* new DiscreteColorMap({bins, nullColor})
DiscreteColorMap(tcm) ==
    [kind |-> "DiscreteColorMap",
     bins |-> [i \in 1..Len(binColors(tcm)) |->
                 [color |-> binColors(tcm)[i],
                  maximum |-> binMaximums(tcm)[i]]],
     nullColor |-> nullColor(tcm)]

\* new ContinuousColorMap({colorScale, minValue, maxValue, nullColor, ...})
ContinuousColorMap(tcm) ==
    [kind |-> "ContinuousColorMap",
     minValue |-> minimumValue(tcm),
     maxValue |-> maximumValue(tcm),
     nullColor |-> nullColor(tcm)]

\* new EnumColorMap for the single value of a scalar column
SingleValueColorMap(tcm) ==
    [kind |-> "EnumColorMap",
     enumColors |-> <<[color |-> fromCssColorString(colorScaleContinuousAtOne),
                       value |-> uniqueValues(tcm.colorColumn)[1]]>>,
     nullColor |-> nullColor(tcm)]

EnumHasValueAndColor(e) == e.value # Undefined /\ e.color # Undefined

\* new EnumColorMap for an enum or region column
EnumColorMap(tcm) ==
    [kind |-> "EnumColorMap",
     enumColors |->
        LET kept == SelectSeq(enumColors(tcm), EnumHasValueAndColor)
        IN  [i \in 1..Len(kept) |->
                [value |-> kept[i].value,
                 color |-> IF tcm.colorColumn.type # "region"
                           THEN IF fromCssColorString(kept[i].color.v) # Undefined
                                THEN fromCssColorString(kept[i].color.v)
                                ELSE TRANSPARENT
                           ELSE regionColor(tcm)]],
     nullColor |-> nullColor(tcm)]

IsRegion(colorColumn) ==
    IF colorColumn = Undefined THEN FALSE ELSE colorColumn.type = "region"

\* The colour of the ConstantColorMap.
constantColor(tcm) ==
    LET colorTraits == tcm.colorTraits
        color ==
            IF IsRegion(tcm.colorColumn) /\ regionColor(tcm) # Undefined
            THEN regionColor(tcm)
            ELSE IF colorTraits.nullColor # Undefined
            THEN fromCssColorString(colorTraits.nullColor.v)
            ELSE IF colorTraits.binColors # Undefined
                    /\ Len(colorTraits.binColors.items) > 0
            THEN fromCssColorString(colorTraits.binColors.items[1])
            ELSE IF tcm.title # Undefined
            THEN fromCssColorString(getColorForId(tcm.title.v))
            ELSE Undefined
    IN  IF color = Undefined THEN fromCssColorString(DEFAULT_COLOR) ELSE color

\* new ConstantColorMap({color, title, nullColor})
ConstantColorMap(tcm) ==
    [kind |-> "ConstantColorMap",
     color |-> constantColor(tcm),
     title |-> tcm.title,
     nullColor |-> IF IsRegion(tcm.colorColumn) THEN nullColor(tcm) ELSE Undefined]

IsScalar(colorColumn) ==
    IF colorColumn = Undefined THEN FALSE ELSE colorColumn.type = "scalar"

IsEnumOrRegion(colorColumn) ==
    IF colorColumn = Undefined THEN FALSE
    ELSE colorColumn.type \in {"enum", "region"}

\* Mutant of colorMap: a continuous map also when minimum = maximum.
colorMapContinuousWhenEqual(tcm) ==
    IF IsScalar(tcm.colorColumn)
    THEN IF Len(binMaximums(tcm)) > 0 THEN DiscreteColorMap(tcm)
         ELSE IF /\ isDefined(minimumValue(tcm))
                 /\ isDefined(maximumValue(tcm))
                 /\ ~LessThan(maximumValue(tcm), minimumValue(tcm))
         THEN ContinuousColorMap(tcm)
         ELSE IF Len(uniqueValues(tcm.colorColumn)) = 1
         THEN SingleValueColorMap(tcm)
         ELSE ConstantColorMap(tcm)
    ELSE IF /\ IsEnumOrRegion(tcm.colorColumn)
            /\ Len(uniqueValues(tcm.colorColumn)) <= Len(enumColors(tcm))
    THEN EnumColorMap(tcm)
    ELSE ConstantColorMap(tcm)

\* get colorMap()
colorMap(tcm) ==
    IF IsScalar(tcm.colorColumn)
    THEN IF Len(binMaximums(tcm)) > 0 THEN DiscreteColorMap(tcm)
         ELSE IF /\ isDefined(minimumValue(tcm))
                 /\ isDefined(maximumValue(tcm))
                 /\ LessThan(minimumValue(tcm), maximumValue(tcm))
         THEN ContinuousColorMap(tcm)
         ELSE IF Len(uniqueValues(tcm.colorColumn)) = 1
         THEN SingleValueColorMap(tcm)
         ELSE ConstantColorMap(tcm)
    ELSE IF /\ IsEnumOrRegion(tcm.colorColumn)
            /\ Len(uniqueValues(tcm.colorColumn)) <= Len(enumColors(tcm))
    THEN EnumColorMap(tcm)
    ELSE ConstantColorMap(tcm)

----------------------------------------------------------------------------
(* ColorSpec: every TableColorMap over bounded columns and colour traits.  *)

ColumnTypes == {"scalar", "enum", "region", "text"}

ColumnValues ==
    {<<>>, <<Num(2)>>, <<Num(1), Num(3)>>, <<Null, Num(2)>>}

\* Region ids of the rows: no region column, or one whose first row matches
\* no region.
RegionIdsFor(type, values) ==
    IF type = "scalar"
    THEN {Undefined,
          Array([i \in 1..Len(values) |-> IF i = 1 THEN Null ELSE Str("r")])}
    ELSE {Undefined}

Columns ==
    {Undefined} \cup
    UNION {{[type |-> type, values |-> values, regionIds |-> regionIds] :
               regionIds \in RegionIdsFor(type, values)} :
           type \in ColumnTypes, values \in ColumnValues}

\* binMaximums and numberOfBins of the traits.
BinTraits ==
    {<<Undefined, 0>>, <<Undefined, 2>>, <<Array(<<>>), 0>>,
     <<Array(<<Num(2)>>), 0>>, <<Array(<<Num(1), Num(4)>>), 0>>}

ColorTraits ==
    {[binMaximums |-> bins[1],
      numberOfBins |-> bins[2],
      binColors |-> colors,
      enumColors |-> enums,
      nullColor |-> null,
      regionColor |-> region,
      zScoreFilter |-> zScore,
      zScoreFilterEnabled |-> zScore # Undefined] :
        bins \in BinTraits,
        colors \in {Undefined, Array(<<>>), Array(<<"blue", InvalidCssColor>>)},
        enums \in {Undefined,
                   Array(<<[value |-> Num(1), color |-> Str("red")]>>),
                   Array(<<[value |-> Num(1), color |-> Str("red")],
                           [value |-> Num(3), color |-> Str(InvalidCssColor)]>>)},
        null \in {Undefined, Str("grey")},
        region \in {Str("green"), Str(InvalidCssColor)},
        zScore \in {Undefined, Num(2)}}

\* What the z-score filter may leave of the range of the valid values: a
\* narrower range min < max, or nothing.
ZScoreOutcomes(values) ==
    {Undefined} \cup
    {[min |-> numbers[1], max |-> numbers[2]] :
        numbers \in {n \in {Num(1), Num(2), Num(3)} \X {Num(1), Num(2), Num(3)} :
            /\ LessThan(n[1], n[2])
            /\ ~LessThan(n[1], getMin(values))
            /\ ~LessThan(getMax(values), n[2])
            /\ <<n[1], n[2]>> # <<getMin(values), getMax(values)>>}}

\* new TableColorMap(title, colorColumn, colorTraits), with what the z-score
\* filter leaves of its valid values.
ColorInit ==
    /\ \E title \in {Undefined, Str("Rainfall")},
          colorColumn \in Columns,
          colorTraits \in ColorTraits :
          LET tcm == [title |-> title, colorColumn |-> colorColumn,
                      colorTraits |-> colorTraits,
                      zScoreFilterValues |-> Undefined]
          IN  \E z \in IF \/ validValues(tcm) = Undefined
                          \/ colorTraits.zScoreFilter = Undefined
                       THEN {Undefined}
                       ELSE ZScoreOutcomes(validValues(tcm).items) :
                  table = [tcm EXCEPT !.zScoreFilterValues = z]
    /\ strata = [n \in StratumNames |-> Absent]
    /\ trait = NoTrait
    /\ result = NoResult
    /\ LifecycleIdle
    /\ copy = NoCopy
    /\ export = NoExport
    /\ LateIdle

colorFrame == <<strata, trait, lifecycleVars, copy, table, export, lateVars>>

\* tableColorMap.colorMap
ColorMap ==
    /\ result' = [op |-> "colorMap", value |-> colorMap(table)]
    /\ UNCHANGED colorFrame

\* tableColorMap.binColors, with the binMaximums it reads
BinColors ==
    /\ result' = [op |-> "binColors", value |-> binColors(table),
                  binMaximums |-> binMaximums(table)]
    /\ UNCHANGED colorFrame

ColorNext ==
    \/ ColorMap
    \/ BinColors

ColorSpec == ColorInit /\ [][ColorNext]_vars

C20_ConstantColorPriority ==
    result.op = "colorMap" /\ result.value.kind = "ConstantColorMap" =>
        LET color == result.value.color
            traitColors == table.colorTraits.binColors
            hasBinColors == IF traitColors = Undefined THEN FALSE
                            ELSE Len(traitColors.items) > 0
        IN  /\ IsRegion(table.colorColumn) /\ regionColor(table) # Undefined =>
                  color = regionColor(table)
            /\ ~IsRegion(table.colorColumn) /\ hasBinColors =>
                  color = [color |-> traitColors.items[1]]
            /\ ~IsRegion(table.colorColumn) /\ ~hasBinColors
                    /\ table.title # Undefined =>
                  color = [color |-> getColorForId(table.title.v)]
            /\ ~IsRegion(table.colorColumn) /\ ~hasBinColors
                    /\ table.title = Undefined =>
                  color = [color |-> DEFAULT_COLOR]

\* C21: binColors has exactly as many entries as binMaximums, whatever the
\* colour column and the traits (fewer or more binColors than bins), and
\* every bin of a DiscreteColorMap has a colour and a maximum.
C21_BinColorsMatchBinMaximums ==
    /\ result.op = "binColors" =>
          Len(result.value) = Len(result.binMaximums)
    /\ (result.op = "colorMap" /\ result.value.kind = "DiscreteColorMap") =>
          /\ Len(result.value.bins) = Len(binMaximums(table))
          /\ \A i \in 1..Len(result.value.bins) :
                /\ result.value.bins[i].color # Undefined
                /\ result.value.bins[i].maximum = binMaximums(table)[i]

C21_Witness ==
    /\ result.op = "binColors"
    /\ table.colorTraits.binColors # Undefined
    /\ Len(table.colorTraits.binColors.items) = 2
    /\ Len(result.binMaximums) = 1
    /\ Len(result.value) = 1

\* C22: for a scalar column with a numeric maximum and an explicit binMaximums
\* trait, the last entry of binMaximums is at least the column maximum: the
\* column maximum is appended exactly when the trait is empty or its last
\* entry is below the column maximum, and the trait is returned as it is
\* otherwise.
C22_LastBinCoversMaximum ==
    (/\ result.op = "binColors"
     /\ IsScalar(table.colorColumn)
     /\ table.colorTraits.binMaximums # Undefined) =>
        LET maximum == valuesMaximum(table.colorColumn)
            traitMaximums == table.colorTraits.binMaximums.items
            maximums == result.binMaximums
            below == \/ Len(traitMaximums) = 0
                     \/ traitMaximums[Len(traitMaximums)].v < maximum.v
        IN  maximum # Undefined =>
              /\ Len(maximums) > 0
              /\ maximums[Len(maximums)].v >= maximum.v
              /\ below => maximums = Append(traitMaximums, maximum)
              /\ ~below => maximums = traitMaximums

C22_Witness ==
    /\ result.op = "binColors"
    /\ IsScalar(table.colorColumn)
    /\ table.colorTraits.binMaximums = Array(<<Num(2)>>)
    /\ valuesMaximum(table.colorColumn) = Num(3)
    /\ result.binMaximums = <<Num(2), Num(3)>>

-----------------------------------------------------------------------------
(* TimesSpec: createDiscreteTimesFromIsoSegments(result, isoSegments,      *)
(* maxRefreshIntervals) for one start/stop/period segment.  Instants are   *)
(* milliseconds; a step is the preamble, one turn of the loop, or the code *)
(* after the loop.                                                         *)

\* The largest maxRefreshIntervals drawn.
MaxIntervals == 4

\* moment.parseZone(text): an instant, or an invalid moment.
Moment(ms) == [valid |-> TRUE, ms |-> ms]
InvalidMoment == [valid |-> FALSE, ms |-> 0]

\* moment.duration(n, unit), and a duration for which isValid() is false.
Duration(n, unit) == [valid |-> TRUE, n |-> n, unit |-> unit]
InvalidDuration == [valid |-> FALSE, n |-> 0, unit |-> "millisecond"]

second == 1000
minute == 60 * second
hour == 60 * minute
day == 24 * hour
week == 7 * day
month == 31 * day
year == 366 * day
decade == 10 * year

\* The length of one unit of a duration, in milliseconds.
unitMilliseconds(unit) ==
    CASE unit = "millisecond" -> 1
      [] unit = "second" -> second
      [] unit = "minute" -> minute
      [] unit = "hour" -> hour
      [] unit = "day" -> day
      [] unit = "week" -> week
      [] unit = "month" -> month
      [] unit = "year" -> year

asMilliseconds(d) == d.n * unitMilliseconds(d.unit)

\* moment.duration(isoSegments[2]) of the period texts drawn below.
duration(text) ==
    CASE text = Str("PT0S") -> Duration(0, "second")
      [] text = Str("PT1S") -> Duration(1, "second")
      [] text = Str("PT2S") -> Duration(2, "second")
      [] text = Str("-PT1S") -> Duration(-1, "second")
      [] OTHER -> InvalidDuration

\* a.isSameOrBefore(b), a.isSame(b): false when either moment is invalid.
isSameOrBefore(a, b) == a.valid /\ b.valid /\ a.ms <= b.ms
isSame(a, b) == a.valid /\ b.valid /\ a.ms = b.ms

\* current.add(duration)
add(m, d) == IF m.valid THEN Moment(m.ms + asMilliseconds(d)) ELSE m

\* spanMilliseconds <= 1000 * unit, without forming the product.
WithinThousand(span, unit) == (span + 999) \div 1000 <= unit

\* The period chosen from the span when isoSegments[2] gives none.  The
\* difference of an invalid moment is NaN, which no comparison accepts.
durationFromSpan(start, stop) ==
    IF ~(start.valid /\ stop.valid) THEN Duration(100, "year")
    ELSE LET spanMilliseconds == stop.ms - start.ms
         IN  IF spanMilliseconds <= 1000 THEN Duration(1, "millisecond")
             ELSE IF WithinThousand(spanMilliseconds, second) THEN Duration(1, "second")
             ELSE IF WithinThousand(spanMilliseconds, minute) THEN Duration(1, "minute")
             ELSE IF WithinThousand(spanMilliseconds, hour) THEN Duration(1, "hour")
             ELSE IF WithinThousand(spanMilliseconds, day) THEN Duration(1, "day")
             ELSE IF WithinThousand(spanMilliseconds, week) THEN Duration(1, "week")
             ELSE IF WithinThousand(spanMilliseconds, month) THEN Duration(1, "month")
             ELSE IF WithinThousand(spanMilliseconds, year) THEN Duration(1, "year")
             ELSE IF WithinThousand(spanMilliseconds, decade) THEN Duration(10, "year")
             ELSE Duration(100, "year")

\* The duration the loop steps by.
segmentDuration(start, stop, period) ==
    LET parsed == IF period # Undefined /\ period # Str("")
                  THEN duration(period) ELSE Undefined
    IN  IF \/ parsed = Undefined
           \/ ~parsed.valid
           \/ asMilliseconds(parsed) = 0
        THEN durationFromSpan(start, stop)
        ELSE parsed

\* formatMomentForWms(m, duration): date and time when the duration has a
\* part below a day, else the moment in the format it was parsed from.
formatMomentForWms(m, d) ==
    [instant |-> m,
     format |-> IF d.unit \in {"millisecond", "second", "minute", "hour"} /\ d.n > 0
                THEN "dateTime" ELSE "asParsed"]

DiscreteTime(m, d) == [time |-> formatMomentForWms(m, d), tag |-> Undefined]

\* The condition of the while loop.
loopContinues(t) ==
    /\ isSameOrBefore(t.current, t.stop)
    /\ t.count < t.maxRefreshIntervals

\* The code after the loop, were the interval's end appended whatever the count.
afterLoopAlwaysAppendingStop(t) ==
    IF ~isSame(t.current, t.stop)
    THEN [t EXCEPT !.result = Append(@, DiscreteTime(t.stop, t.duration)),
                   !.pc = "done"]
    ELSE [t EXCEPT !.pc = "done"]

\* The code after the loop: a warning, or the interval's end.
afterLoop(t) ==
    IF t.count >= t.maxRefreshIntervals
    THEN [t EXCEPT !.warned = TRUE, !.pc = "done"]
    ELSE IF ~isSame(t.current, t.stop)
    THEN [t EXCEPT !.result = Append(@, DiscreteTime(t.stop, t.duration)),
                   !.pc = "done"]
    ELSE [t EXCEPT !.pc = "done"]

Instants == {Moment(0), Moment(2), Moment(2500), Moment(120000), InvalidMoment}
Periods == {Undefined, Str(""), Str("P1"), Str("PT0S"), Str("PT1S"),
            Str("PT2S"), Str("-PT1S")}

\* The times pushed before this segment.
EarlierTimes == {<<>>, <<[time |-> Str("2000-01-01"), tag |-> Undefined]>>}

TimesInit ==
    /\ \E start \in Instants, stop \in Instants, period \in Periods,
          maxRefreshIntervals \in 0..MaxIntervals, earlier \in EarlierTimes :
          times = [pc |-> "called", start |-> start, stop |-> stop,
                   period |-> period,
                   maxRefreshIntervals |-> maxRefreshIntervals,
                   earlier |-> Len(earlier), result |-> earlier,
                   duration |-> Undefined, current |-> start, count |-> 0,
                   warned |-> FALSE]
    /\ strata = [n \in StratumNames |-> Absent]
    /\ trait = NoTrait
    /\ result = NoResult
    /\ LifecycleIdle
    /\ copy = NoCopy
    /\ table = NoTable
    /\ export = NoExport
    /\ provider = NoProvider
    /\ group = NoGroup

timesFrame ==
    <<strata, trait, result, lifecycleVars, copy, table, export, provider, group>>

\* The statements before the loop.
ChooseDuration ==
    /\ times.pc = "called"
    /\ times' = [times EXCEPT
                   !.duration = segmentDuration(times.start, times.stop, times.period),
                   !.current = times.start,
                   !.count = 0,
                   !.pc = "loop"]
    /\ UNCHANGED timesFrame

\* One turn of the while loop.
LoopTurn ==
    /\ times.pc = "loop"
    /\ loopContinues(times)
    /\ times' = [times EXCEPT
                   !.result = Append(@, DiscreteTime(times.current, times.duration)),
                   !.current = add(times.current, times.duration),
                   !.count = @ + 1]
    /\ UNCHANGED timesFrame

\* The loop condition fails.
LoopExit ==
    /\ times.pc = "loop"
    /\ ~loopContinues(times)
    /\ times' = afterLoop(times)
    /\ UNCHANGED timesFrame

TimesNext ==
    \/ ChooseDuration
    \/ LoopTurn
    \/ LoopExit

\* The function runs to its end once called: every step is taken.
TimesSpec == TimesInit /\ [][TimesNext]_vars /\ WF_vars(TimesNext)

Appended == Len(times.result) - times.earlier

\* C23: every call of createDiscreteTimesFromIsoSegments returns, and has then
\* appended at most maxRefreshIntervals entries to result.
C23_TerminatesWithinMaxRefreshIntervals ==
    (times.pc = "called") ~>
        (times.pc = "done" /\ Appended <= times.maxRefreshIntervals)

\* The limit is met exactly by a period chosen from the span, and the
\* interval's end is left out.
C23_Witness ==
    /\ times.pc = "done"
    /\ times.period = Undefined
    /\ times.maxRefreshIntervals > 0
    /\ Appended = times.maxRefreshIntervals
    /\ times.warned

-----------------------------------------------------------------------------
(* TileSpec: the imagery provider made by createImageryProvider and the    *)
(* requestImage calls the map makes on it.  provider.log lists the calls:  *)
(* the level asked for, whether the real requestImage was called, the      *)
(* image returned and whether terria.error was raised.                     *)

\* The deepest level that scaleDenominatorToLevel yields here.
MaxLevel == 2
\* The number of requestImage calls followed.
MaxRequests == 4

\* scaleDenominatorToLevel(this.minScaleDenominator)
MaximumLevels == {Undefined} \cup {Num(n) : n \in 0..MaxLevel}

\* The levels the map asks for: one beyond the deepest, as the provider allows.
Levels == 0..(MaxLevel + 1)

\* new WebMapServiceImageryProvider(imageryOptions), and whether its
\* requestImage is replaced.
newImageryProvider(hide, maximumLevel) ==
    LET limited == maximumLevel # Undefined /\ hide
    IN  [state |-> "created",
         hideLayerAfterMinScaleDenominator |-> hide,
         maximumLevel |-> maximumLevel,
         optionsMaximumLevel |-> IF limited THEN Num(maximumLevel.v + 1)
                                 ELSE maximumLevel,
         overridden |-> limited,
         messageDisplayed |-> FALSE,
         log |-> <<>>]

Delegated(level) ==
    [level |-> level, real |-> TRUE, image |-> "tile", raised |-> FALSE]

Blank(level, raised) ==
    [level |-> level, real |-> FALSE, image |-> "blank", raised |-> raised]

\* requestImage, were messageDisplayed never set.
requestImageNeverMarkingDisplayed(p, level) ==
    IF p.overridden /\ level > p.maximumLevel.v
    THEN [p EXCEPT !.log = Append(@, Blank(level, ~p.messageDisplayed))]
    ELSE [p EXCEPT !.log = Append(@, Delegated(level))]

\* imageryProvider.requestImage(x, y, level)
requestImage(p, level) ==
    IF p.overridden /\ level > p.maximumLevel.v
    THEN [p EXCEPT !.log = Append(@, Blank(level, ~p.messageDisplayed)),
                   !.messageDisplayed = TRUE]
    ELSE [p EXCEPT !.log = Append(@, Delegated(level))]

TileInit ==
    /\ \E hide \in BOOLEAN, maximumLevel \in MaximumLevels :
          provider = newImageryProvider(hide, maximumLevel)
    /\ strata = [n \in StratumNames |-> Absent]
    /\ trait = NoTrait
    /\ result = NoResult
    /\ LifecycleIdle
    /\ copy = NoCopy
    /\ table = NoTable
    /\ export = NoExport
    /\ times = NoTimes
    /\ group = NoGroup

tileFrame ==
    <<strata, trait, result, lifecycleVars, copy, table, export, times, group>>

\* The map asks the provider for a tile.
RequestImage(level) ==
    /\ Len(provider.log) < MaxRequests
    /\ provider' = requestImage(provider, level)
    /\ UNCHANGED tileFrame

TileNext == \E level \in Levels : RequestImage(level)

TileSpec == TileInit /\ [][TileNext]_vars

\* The calls before call i that asked for a level beyond maximumLevel.
EarlierBeyond(i) ==
    {j \in 1..(i - 1) : provider.log[j].level > provider.maximumLevel.v}

\* C24: with hideLayerAfterMinScaleDenominator and a defined maximumLevel, the
\* error is raised by the first call beyond maximumLevel and by no other, every
\* call beyond maximumLevel returns the blank image without the real
\* requestImage, and every other call is delegated and raises nothing.
C24_ScaleErrorRaisedOnce ==
    (provider.hideLayerAfterMinScaleDenominator /\ provider.maximumLevel # Undefined) =>
        /\ Cardinality({i \in 1..Len(provider.log) : provider.log[i].raised}) <= 1
        /\ \A i \in 1..Len(provider.log) :
              LET call == provider.log[i]
              IN  IF call.level > provider.maximumLevel.v
                  THEN /\ call.image = "blank"
                       /\ ~call.real
                       /\ call.raised <=> EarlierBeyond(i) = {}
                  ELSE /\ call.real
                       /\ call.image = "tile"
                       /\ ~call.raised

\* A call within the limit, then two beyond it.
C24_Witness ==
    /\ provider.hideLayerAfterMinScaleDenominator
    /\ provider.maximumLevel = Num(1)
    /\ Len(provider.log) = 3
    /\ provider.log[1].level = 1
    /\ provider.log[2].level = 2
    /\ provider.log[3].level = 3
    /\ provider.log[2].raised
    /\ ~provider.log[3].raised

-----------------------------------------------------------------------------
(* GroupSpec: one DataCatalogGroup view over one catalog group.            *)
(* group.state is the component's state, group.group the group model,      *)
(* group.calls the arguments openGroup was called with.                    *)

\* The number of toggleOpen calls followed.
MaxToggles == 6

\* getInitialState() under the props given.
DataCatalogGroup(manageIsOpenLocally, groupIsOpen) ==
    [props |-> [manageIsOpenLocally |-> manageIsOpenLocally],
     state |-> [isOpen |-> FALSE],
     group |-> [isOpen |-> groupIsOpen],
     calls |-> <<>>,
     toggles |-> 0]

\* this.isOpen()
isOpen(g) ==
    IF g.props.manageIsOpenLocally THEN g.state.isOpen ELSE g.group.isOpen

\* this.toggleStateIsOpen()
toggleStateIsOpen(g) == [g EXCEPT !.state.isOpen = ~g.state.isOpen]

\* openGroup(group, open): the call, and what it may leave in group.isOpen
\* (the value asked for, or the one a higher stratum keeps).
openGroup(g, open) ==
    {[g EXCEPT !.calls = Append(@, open), !.group.isOpen = now] :
        now \in {open, g.group.isOpen}}

\* toggleOpen, were the group model opened whatever manageIsOpenLocally.
toggleOpenAlwaysOpeningGroup(g) ==
    IF g.props.manageIsOpenLocally
    THEN openGroup(toggleStateIsOpen(g), ~g.group.isOpen)
    ELSE openGroup(g, ~g.group.isOpen)

\* this.toggleOpen(): the states it may end in.
toggleOpen(g) ==
    IF g.props.manageIsOpenLocally
    THEN {toggleStateIsOpen(g)}
    ELSE openGroup(g, ~g.group.isOpen)

GroupInit ==
    /\ \E manageIsOpenLocally \in BOOLEAN, groupIsOpen \in BOOLEAN :
          group = DataCatalogGroup(manageIsOpenLocally, groupIsOpen)
    /\ strata = [n \in StratumNames |-> Absent]
    /\ trait = NoTrait
    /\ result = NoResult
    /\ LifecycleIdle
    /\ copy = NoCopy
    /\ table = NoTable
    /\ export = NoExport
    /\ times = NoTimes
    /\ provider = NoProvider

groupFrame ==
    <<strata, trait, result, lifecycleVars, copy, table, export, times, provider>>

\* clickGroup calls toggleOpen.
ToggleOpen ==
    /\ group.toggles < MaxToggles
    /\ \E g \in toggleOpen(group) : group' = [g EXCEPT !.toggles = @ + 1]
    /\ UNCHANGED groupFrame

\* The group model is opened or closed from elsewhere.
GroupChanges ==
    /\ group' = [group EXCEPT !.group.isOpen = ~group.group.isOpen]
    /\ UNCHANGED groupFrame

GroupNext ==
    \/ ToggleOpen
    \/ GroupChanges

GroupSpec == GroupInit /\ [][GroupNext]_vars

Toggled == group'.toggles = group.toggles + 1

\* C25: with manageIsOpenLocally, isOpen() is false at first and flips on each
\* toggleOpen, and a toggle neither calls openGroup nor changes group.isOpen;
\* without it, isOpen() is group.isOpen, a toggle calls openGroup with the
\* negation of group.isOpen, and the local isOpen state never changes.
C25_OpenStateOwner ==
    /\ [](IF group.props.manageIsOpenLocally
          THEN /\ isOpen(group) = (group.toggles % 2 = 1)
               /\ group.calls = <<>>
          ELSE /\ isOpen(group) = group.group.isOpen
               /\ group.state.isOpen = FALSE)
    /\ [][Toggled =>
            IF group.props.manageIsOpenLocally
            THEN /\ isOpen(group') = ~isOpen(group)
                 /\ group'.calls = group.calls
                 /\ group'.group.isOpen = group.group.isOpen
            ELSE /\ group'.calls = Append(group.calls, ~group.group.isOpen)
                 /\ group'.state.isOpen = group.state.isOpen]_vars

\* Three local toggles over a group that stays open.
C25_Witness ==
    /\ group.props.manageIsOpenLocally
    /\ group.toggles = 3
    /\ isOpen(group)
    /\ group.group.isOpen
    /\ group.calls = <<>>

-----------------------------------------------------------------------------
(* Spec, continued: a load with no URL to fetch from, and showDiffImage.   *)

\* C26: a load started while getCapabilitiesUrl is undefined is rejected at
\* once with the missing-URL TerriaError and starts no capabilities fetch, and
\* when that rejection reaches forceLoadMetadata no stratum is installed.
C26_MissingUrlRejectsWithoutFetch ==
    [][/\ (loadCount' = loadCount + 1 /\ getCapabilitiesUrl(strata) = Undefined) =>
              /\ promise' = [status |-> "rejected", load |-> loadCount',
                             error |-> "missingUrl"]
              /\ fetchCount' = fetchCount
              /\ strata' = strata
       /\ (promise.status = "rejected" /\ promise.error = "missingUrl"
             /\ promise' # promise) =>
              /\ strata' = strata
              /\ fetchCount' = fetchCount
              /\ promise' = NoPromise
      ]_vars

\* The first load, with no URL configured, has failed: nothing was fetched
\* and nothing is installed.
C26_Witness ==
    /\ loader.state = "Failed"
    /\ loadCount = 1
    /\ fetchCount = 0
    /\ callers[1].outcome = "rejected"
    /\ callers[1].error = "missingUrl"
    /\ \A n \in StratumNames : strata[n] = Absent

DiffTraits == {"firstDiffDate", "secondDiffDate", "diffStyleId", "isShowingDiff"}

\* A step in which showDiffImage was called.
ShowDiffImageCalled == result' # result /\ result'.op = "showDiffImage"

\* C27: showDiffImage called while canDiffImages is false leaves every stratum
\* as it was; called while canDiffImages is true it writes the four diff
\* traits to the user stratum, isShowingDiff as true, and nothing else.
C27_ShowDiffImageOnlyWhenDiffable ==
    [][ShowDiffImageCalled =>
          IF ~canDiffImages(strata)
          THEN strata' = strata
          ELSE /\ strata'[userStratumName] # Absent
               /\ \E firstDate \in {"d1", "dX"} :
                     strata'[userStratumName].values["firstDiffDate"]
                         = getTagForTime(firstDate)
               /\ strata'[userStratumName].values["secondDiffDate"] = Str("t2")
               /\ strata'[userStratumName].values["diffStyleId"] = Str("ndvi")
               /\ strata'[userStratumName].values["isShowingDiff"] = Bool(TRUE)
               /\ \A id \in TraitIds \ DiffTraits :
                     strata'[userStratumName].values[id]
                         = IF strata[userStratumName] = Absent
                           THEN Undefined
                           ELSE strata[userStratumName].values[id]
               /\ \A n \in StratumNames \ {userStratumName} :
                     strata'[n] = strata[n]
      ]_vars

\* showDiffImage has been called on an item that cannot show differences: no
\* diff trait is stored anywhere.
C27_Witness ==
    /\ result.op = "showDiffImage"
    /\ ~canDiffImages(strata)
    /\ strata[getCapabilitiesStratumName] # Absent
    /\ \A n \in StratumNames :
          strata[n] # Absent /\ "values" \in DOMAIN strata[n]
              => \A id \in DiffTraits : strata[n].values[id] = Undefined

====
